---- MODULE Spec2Model ----
(***************************************************************************)
(* go-lagoon-log-forwarder: the logger package.                            *)
(*                                                                         *)
(* The model covers the process-wide resolved settings (logger.go:12-22),  *)
(* Initialize with its sync.Once gate (logger.go:44-79), config/validate   *)
(* (config: part_003:31-56), connect (logger.go:109-125), the JSON record  *)
(* layout produced by the installed handler (logger.go:65-107) and the     *)
(* synchronizedUDPWriter (logger.go:25-40).                                *)
(*                                                                         *)
(* Goroutines interleave at statement granularity.  The package variables  *)
(* are plain (unsynchronised) globals, so concurrent Initialize calls race *)
(* on them; the interleaving of the individual assignments and reads gives *)
(* the outcomes such a race can produce.                                   *)
(***************************************************************************)
EXTENDS Integers, Sequences, FiniteSets, TLC

\* ------------------------------------------------------------------ bounds
MaxCalls == 2
MaxRecords == 2
NumWriters == 2
MaxProbes == 2

\* The goroutines that call Initialize; the first is the program's main one.
Callers == {1, 2}
MainGoroutine == CHOOSE c \in Callers : \A d \in Callers : c <= d

\* ------------------------------------------------------- program constants
\* slog levels (log/slog): Debug = -4, Info = 0, Warn = 4, Error = 8.
LevelDebug == -4
LevelInfo == 0
LevelWarn == 4
LevelError == 8
\* logger.go:47
InternalMessageVersion == 3

Nil == "nil"
NoOne == 0

\* os.Hostname() of the machine (logger.go:46); the error is discarded.
OsHostname == "node-1"

\* ------------------------------------------------------------ config.go
\* A constructor that returns Config{} with nothing filled in.
NewConfigWithoutDefaults ==
  [AddSource |-> FALSE, ApplicationName |-> "", LogChannel |-> "",
   LogHost |-> "", LogPort |-> 0, LogType |-> "", MessageVersion |-> 0]

\* NewConfig (part_003:19-29)
NewConfig ==
  [AddSource |-> TRUE, ApplicationName |-> "", LogChannel |-> "LagoonLogs",
   LogHost |-> "", LogPort |-> 5140, LogType |-> "", MessageVersion |-> 1]

\* The configurations callers pass: the defaults untouched, the documented
\* end-to-end configuration, and one that differs from it in every field.
CfgDemo ==
  [NewConfig EXCEPT !.LogType = "demo", !.LogHost = "127.0.0.1", !.LogPort = 0]

CfgOther ==
  [AddSource |-> FALSE, ApplicationName |-> "app", LogChannel |-> "chan",
   LogHost |-> "logs.example", LogPort |-> 5141, LogType |-> "other",
   MessageVersion |-> 2]

Configs == {NewConfig, CfgDemo, CfgOther}

VARIABLES
  \* package variables (logger.go:12-22)
  addSource, applicationName, hostname, logChannel, logHost, logPort, logType,
  messageVersion,
  onceDone,        \* sync.Once: done flag
  onceM,           \* sync.Once: holder of its mutex, NoOne when free
  \* slog's process default logger
  defaultLogger,
  \* the goroutines calling Initialize
  pc, cfg, ret,
  calls,           \* Initialize calls started so far
  \* output streams: the write calls each sink received
  stdoutW, udpW, stderrW,
  nrec,            \* application log calls made so far
  \* history
  setupStarted,    \* executions of the once.Do body begun
  installs,        \* slog.SetDefault calls made by Initialize
  udpOpened,       \* UDP connections opened by connect
  udpClosed,       \* Close calls received by the UDP connection
  firstOk,         \* the first Initialize call that returned nil: its configuration
                   \* and the default logger at its return
  setupBy,         \* the goroutine that ran the once.Do body, NoOne before
  writerRemote,    \* per call: its local writer includes the UDP writer (logger.go:54-63)
  udpAddr,         \* addresses connect dialled, in order
  connects,        \* the connect calls made: address, steps attempted, result
  \* synchronizedUDPWriter exercised directly (logger.go:25-40)
  mu,              \* holder of w.mu, NoOne when free
  wpc, wret,       \* the goroutines calling Write / Close
  inConn,          \* calls currently executing inside w.conn
  connClosed,      \* the transport has been closed
  connCalls,       \* the calls w.conn received, in order of arrival
  connRes,         \* per goroutine: what its call to w.conn returned
  nfwd,            \* per goroutine: how many calls it forwarded to w.conn
  delivered,       \* the datagrams the transport sent, in order
  cause,           \* per call: the error its returned error wraps (%w), Nil if none
  probe            \* the package function last called directly, its arguments and result

globals == <<addSource, applicationName, hostname, logChannel, logHost, logPort,
             logType, messageVersion>>
onceVars == <<onceDone, onceM>>
sinkVars == <<stdoutW, udpW, stderrW>>
histVars == <<setupStarted, installs, udpOpened, udpClosed, firstOk, setupBy, udpAddr,
              connects>>
callVars == <<pc, cfg, ret, calls, writerRemote, cause>>
writerVars == <<mu, wpc, wret, inConn, connClosed, connCalls, connRes, nfwd,
                delivered>>
processVars == <<globals, onceVars, defaultLogger, callVars, sinkVars, nrec, histVars,
                 probe>>
vars == <<processVars, writerVars>>

\* ------------------------------------------------------- slog attributes
\* An attribute: a key and a value of one kind.  str holds a string value,
\* num an integer one (a version, a level, a timestamp); the other is unused.
IntAttr(k, n) == [key |-> k, kind |-> "int", str |-> "", num |-> n]
StringAttr(k, s) == [key |-> k, kind |-> "string", str |-> s, num |-> 0]
TimeAttr(k, t) == [key |-> k, kind |-> "time", str |-> "", num |-> t]
LevelAttr(k, l) == [key |-> k, kind |-> "level", str |-> "", num |-> l]
\* slog.Group(name) with no members (logger.go:87-88)
EmptyGroup(k) == [key |-> k, kind |-> "group", str |-> "", num |-> 0]
\* the source location slog adds under AddSource: a group with members
SourceAttr(k) == [key |-> k, kind |-> "source", str |-> "", num |-> 0]

\* A hook that renames inside groups as well.
replaceAttrAnyDepth(groups, a) ==
  CASE a.key = "msg" -> [a EXCEPT !.key = "message"]
    [] a.key = "time" -> [a EXCEPT !.key = "@timestamp"]
    [] a.key = "timestampOverride" -> [a EXCEPT !.key = "@timestamp"]
    [] OTHER -> a

\* replaceAttr (logger.go:95-107)
replaceAttr(groups, a) ==
  IF Len(groups) = 0
  THEN CASE a.key = "msg" -> [a EXCEPT !.key = "message"]
         [] a.key = "time" -> [a EXCEPT !.key = "@timestamp"]
         [] a.key = "timestampOverride" -> [a EXCEPT !.key = "@timestamp"]
         [] OTHER -> a
  ELSE a

\* Default attributes that leave out the host.
defaultAttrsWithoutHost(mv, app, chan, host, type) ==
  << IntAttr("@version", mv),
     StringAttr("application", app),
     StringAttr("channel", chan),
     EmptyGroup("context"),
     EmptyGroup("extra"),
     StringAttr("type", type) >>

\* defaultAttrs (logger.go:81-93), reading the package variables given
defaultAttrs(mv, app, chan, host, type) ==
  << IntAttr("@version", mv),
     StringAttr("application", app),
     StringAttr("channel", chan),
     EmptyGroup("context"),
     EmptyGroup("extra"),
     StringAttr("host", host),
     StringAttr("type", type) >>

\* What the JSON handler does with a list of top-level attributes: the
\* ReplaceAttr hook is applied to each with no open group, and a group with
\* no members is omitted from the output.
Rendered(attrs) ==
  LET hooked == [i \in 1..Len(attrs) |-> replaceAttr(<<>>, attrs[i])]
      Keep(a) == a.kind # "group"
  IN SelectSeq(hooked, Keep)

\* ------------------------------------------------------------- loggers
\* The process default before Initialize installs anything: slog's built-in
\* handler, which writes text lines to the log package's standard error and
\* drops records below Info.
StdLogger == [kind |-> "std", remote |-> FALSE, addSource |-> FALSE, attrs |-> <<>>]

\* slog.New(slog.NewJSONHandler(writer, opts)).With(defaultAttrs()...)
\* (logger.go:65-73): writer is stdout alone or MultiWriter(stdout, udp).
JSONLogger(remote, src, attrs) ==
  [kind |-> "json", remote |-> remote, addSource |-> src, attrs |-> Rendered(attrs)]

\* HandlerOptions.Level of the installed handler (logger.go:70)
HandlerLevelInfo == LevelInfo

HandlerLevel == LevelDebug

Enabled(L, level) ==
  IF L.kind = "std" THEN level >= LevelInfo ELSE level >= HandlerLevel

\* The line the JSON handler builds for one record: time, level, source (if
\* AddSource), msg, the logger's attributes, the record's own attributes.
Format(L, r) ==
  Rendered(<<TimeAttr("time", r.time), LevelAttr("level", r.level)>>
           \o (IF L.addSource THEN <<SourceAttr("source")>> ELSE <<>>)
           \o <<StringAttr("msg", r.msg)>>)
  \o L.attrs
  \o Rendered(r.attrs)

\* The line slog's built-in handler hands to the log package.
StdFormat(r) ==
  <<TimeAttr("time", r.time), LevelAttr("level", r.level), StringAttr("msg", r.msg)>>
  \o r.attrs

\* A fan-out that writes every sink whatever the earlier writes returned.
MultiWriterSkipsCheck(L, consoleOk) == L.remote

\* io.MultiWriter(os.Stdout, syncUDPWriter).Write (logger.go:62): the writers
\* are written in order and the first error (or short write) ends the call,
\* so the UDP writer is written only after a successful console write.
MultiWriterRemote(L, consoleOk) == L.remote /\ consoleOk

\* A fan-out built with the UDP writer ahead of the console.
SinkOrderRemoteFirst == <<"udp", "stdout">>

\* The writers io.MultiWriter is given, in the order it writes them
\* (logger.go:62): os.Stdout, then the synchronized UDP writer.
SinkOrder == <<"stdout", "udp">>

\* Whether a record is handed to the console, given the result of the UDP
\* write: always when the console is the only writer or the first one.
ConsoleWritten(L, remoteOk) ==
  ~L.remote \/ SinkOrder[1] = "stdout" \/ remoteOk

\* Whether a record is handed to the UDP writer, given the result of the
\* console write.
RemoteWritten(L, consoleOk) ==
  IF SinkOrder[1] = "stdout" THEN MultiWriterRemote(L, consoleOk) ELSE L.remote

\* time.Now() as a record sees it: the clock ticks with every Initialize
\* call and every application log call begun.
Now == calls + nrec

\* One record handed to logger L.  S is the record of output streams;
\* consoleOk and remoteOk are the results the operating system gives the two
\* write calls.  A disabled level produces no write.
Emit(S, L, level, msg, attrs, consoleOk, remoteOk) ==
  LET r == [time |-> Now, level |-> level, msg |-> msg, attrs |-> attrs]
  IN IF ~Enabled(L, level) THEN S
     ELSE IF L.kind = "std"
     THEN [S EXCEPT !.stderr = Append(@, [bytes |-> StdFormat(r), ok |-> TRUE])]
     ELSE LET b == Format(L, r)
          IN [S EXCEPT
                !.stdout = IF ConsoleWritten(L, remoteOk)
                           THEN Append(@, [bytes |-> b, ok |-> consoleOk])
                           ELSE @,
                !.udp = IF RemoteWritten(L, consoleOk)
                        THEN Append(@, [bytes |-> b, ok |-> remoteOk])
                        ELSE @]

Streams == [stdout |-> stdoutW, udp |-> udpW, stderr |-> stderrW]

SetStreams(S) ==
  /\ stdoutW' = S.stdout
  /\ udpW' = S.udp
  /\ stderrW' = S.stderr


\* ------------------------------------------------------------ Initialize
ConfigError == "configuration error: logType is required"

\* What the application logs: a level below Debug, Debug with an attribute
\* of its own keyed "msg", and Info with a caller-supplied timestampOverride.
AppRecords ==
  { [level |-> LevelDebug - 4, attrs |-> <<>>],
    [level |-> LevelDebug, attrs |-> <<StringAttr("msg", "again")>>],
    [level |-> LevelInfo, attrs |-> <<StringAttr("timestampOverride", "t0")>>] }

\* Outcomes of connect (logger.go:109-125) the environment can produce.
ConnectOutcomes == {"ok", "resolve", "dial"}

Idle(c) == pc[c] \in {"idle", "done"}

\* A goroutine calls Initialize(k).
Call(c) ==
  /\ Idle(c)
  /\ calls < MaxCalls
  /\ \E k \in Configs : cfg' = [cfg EXCEPT ![c] = k]
  /\ pc' = [pc EXCEPT ![c] = "L46"]
  /\ ret' = [ret EXCEPT ![c] = "pending"]
  /\ cause' = [cause EXCEPT ![c] = Nil]
  /\ calls' = calls + 1
  /\ UNCHANGED <<globals, onceVars, defaultLogger, writerRemote, sinkVars, nrec, histVars,
                 writerVars, probe>>

\* A goroutine's first call, made while others may be inside Initialize.
CallOnce(c) ==
  /\ pc[c] = "idle"
  /\ Call(c)

\* A call made when no other Initialize call is in progress.
CallAlone(c) ==
  /\ \A d \in Callers : Idle(d)
  /\ Call(c)

\* logger.go:46   hostname, _ = os.Hostname()
SetHostname(c) ==
  /\ pc[c] = "L46"
  /\ hostname' = OsHostname
  /\ pc' = [pc EXCEPT ![c] = "L47"]
  /\ UNCHANGED <<addSource, applicationName, logChannel, logHost, logPort, logType,
                 messageVersion, onceVars, defaultLogger, cfg, ret, calls,
                 writerRemote, sinkVars, nrec, histVars, writerVars, cause,
                 probe>>

\* logger.go:47   messageVersion = 3
SetMessageVersion(c) ==
  /\ pc[c] = "L47"
  /\ messageVersion' = InternalMessageVersion
  /\ pc' = [pc EXCEPT ![c] = "C32"]
  /\ UNCHANGED <<addSource, applicationName, hostname, logChannel, logHost, logPort,
                 logType, onceVars, defaultLogger, cfg, ret, calls, writerRemote,
                 sinkVars, nrec, histVars, writerVars, cause, probe>>

\* A config that leaves the version Initialize set (logger.go:47) in place.
AssignedKeepsVersion(k, field) ==
  IF field = "MessageVersion" THEN InternalMessageVersion ELSE k[field]

\* A config that skips a field holding Go's zero value.
AssignedUnlessEmpty(k, field) ==
  IF field = "LogHost" /\ k[field] = "" THEN "localhost" ELSE k[field]

\* The value config assigns to the package variable of a field
\* (part_003:32-38): the field of cfg, as it is.
Assigned(k, field) == k[field]

\* config (part_003:31-38): the seven assignments, one per step.
ConfigAssign(c) ==
  /\ pc[c] \in {"C32", "C33", "C34", "C35", "C36", "C37", "C38"}
  /\ addSource' = IF pc[c] = "C32" THEN Assigned(cfg[c], "AddSource") ELSE addSource
  /\ applicationName' = IF pc[c] = "C33" THEN Assigned(cfg[c], "ApplicationName")
                        ELSE applicationName
  /\ logChannel' = IF pc[c] = "C34" THEN Assigned(cfg[c], "LogChannel") ELSE logChannel
  /\ logHost' = IF pc[c] = "C35" THEN Assigned(cfg[c], "LogHost") ELSE logHost
  /\ logPort' = IF pc[c] = "C36" THEN Assigned(cfg[c], "LogPort") ELSE logPort
  /\ logType' = IF pc[c] = "C37" THEN Assigned(cfg[c], "LogType") ELSE logType
  /\ messageVersion' = IF pc[c] = "C38" THEN Assigned(cfg[c], "MessageVersion")
                       ELSE messageVersion
  /\ pc' = [pc EXCEPT ![c] =
              CASE pc[c] = "C32" -> "C33" [] pc[c] = "C33" -> "C34"
                [] pc[c] = "C34" -> "C35" [] pc[c] = "C35" -> "C36"
                [] pc[c] = "C36" -> "C37" [] pc[c] = "C37" -> "C38"
                [] pc[c] = "C38" -> "V45"]
  /\ UNCHANGED <<hostname, onceVars, defaultLogger, cfg, ret, calls, writerRemote,
                 sinkVars, nrec, histVars, writerVars, cause, probe>>

\* A validate that never warns.
HostNeverMissing(host) == FALSE

\* validate's first test (part_003:45)
HostMissing(host) == Len(host) = 0

\* validate (part_003:45-49): the warning goes to slog's current default.
WarnIfNoHost(host) ==
  IF HostMissing(host)
  THEN \E consoleOk, remoteOk \in BOOLEAN :
         SetStreams(Emit(Streams, defaultLogger, LevelWarn,
                         "log.host is not supplied and will default to localhost",
                         <<>>, consoleOk, remoteOk))
  ELSE UNCHANGED sinkVars

ValidateHost(c) ==
  /\ pc[c] = "V45"
  /\ WarnIfNoHost(logHost)
  /\ pc' = [pc EXCEPT ![c] = "V51"]
  /\ UNCHANGED <<globals, onceVars, defaultLogger, cfg, ret, calls, writerRemote,
                 nrec, histVars, writerVars, cause, probe>>

\* A validate that accepts every LogType.
validateAcceptsAll(type) == Nil

\* validate's result (part_003:51-55)
validate(type) == IF Len(type) = 0 THEN "logType is required" ELSE Nil

\* An Initialize that returns config's error as it is.
Unprefixed(err) == err

\* Initialize's result for config's result (logger.go:49-51)
Wrapped(err) == "configuration error: " \o err

\* The first Initialize call to return nil, for the record.
NoteOk(c) ==
  firstOk' = IF firstOk = <<>>
             THEN <<[cfg |-> cfg[c], logger |-> defaultLogger]>>
             ELSE firstOk

\* An Initialize that uses up the Once also when config fails.
DoneAlsoAfterConfigError(done) == TRUE

\* The Once's done flag after Initialize returned the configuration error
\* (logger.go:49-51): the return precedes once.Do, the Once is not touched.
DoneAfterConfigError(done) == done

\* A validate that ends the process on an empty logType (os.Exit(1)).
InvalidAlwaysExits == TRUE

\* Whether validate's failure branch (part_003:51-53) ends the process: it
\* returns errors.New(...) and calls neither os.Exit nor panic.
InvalidExits == FALSE

\* validate (part_003:51-55), config's return (part_003:39) and Initialize's
\* error return (logger.go:49-51).  pc "exit" is a goroutine that ended the
\* process.
ValidateType(c) ==
  /\ pc[c] = "V51"
  /\ cause' = [cause EXCEPT ![c] = validate(logType)]
  /\ IF validate(logType) # Nil
     THEN /\ ret' = [ret EXCEPT ![c] = IF InvalidExits THEN @
                                       ELSE Wrapped(validate(logType))]
          /\ pc' = [pc EXCEPT ![c] = IF InvalidExits THEN "exit" ELSE "done"]
          /\ onceDone' = DoneAfterConfigError(onceDone)
     ELSE /\ pc' = [pc EXCEPT ![c] = "L53"]
          /\ ret' = ret
          /\ onceDone' = onceDone
  /\ UNCHANGED <<globals, onceM, defaultLogger, cfg, calls, writerRemote,
                 sinkVars, nrec, histVars, writerVars, probe>>

\* ------------------------------------------------------------- sync.Once
\* once.Do (logger.go:53) is Go's sync.Once:
\*   Do:     if done == 0 { doSlow(f) }
\*   doSlow: m.Lock(); defer m.Unlock(); if done == 0 { defer done.Store(1); f() }

\* A gate that also returns at once while another goroutine is still running
\* f (the compare-and-swap shortcut sync.Once is documented to avoid).
OnceReturnsEarlyWhenBusy(done, holder) == done \/ holder # NoOne

\* Do returns at once, without taking the mutex, exactly when done is set.
OnceFastPath(done, holder) == done

\* A gate without the second look at done under the mutex.
OnceRunsEveryTime(done) == TRUE

\* doSlow runs f, once it holds the mutex, exactly when done is still unset.
OnceRunsBody(done) == ~done

\* logger.go:78   return nil
ReturnNil(c) ==
  /\ ret' = [ret EXCEPT ![c] = Nil]
  /\ pc' = [pc EXCEPT ![c] = "done"]
  /\ NoteOk(c)

\* logger.go:53   once.Do: the check of done before the mutex
OnceDo(c) ==
  /\ pc[c] = "L53"
  /\ IF OnceFastPath(onceDone, onceM)
     THEN ReturnNil(c)
     ELSE /\ pc' = [pc EXCEPT ![c] = "doSlow"]
          /\ UNCHANGED <<ret, firstOk>>
  /\ UNCHANGED <<globals, onceVars, defaultLogger, cfg, calls, writerRemote,
                 sinkVars, nrec, setupStarted, installs, udpOpened, udpClosed,
                 setupBy, udpAddr, connects, writerVars, cause, probe>>

\* doSlow: take the mutex (blocking while another holds it), look at done again
OnceLock(c) ==
  /\ pc[c] = "doSlow"
  /\ onceM = NoOne
  /\ onceM' = c
  /\ IF OnceRunsBody(onceDone)
     THEN /\ pc' = [pc EXCEPT ![c] = "L56"]
          /\ setupStarted' = setupStarted + 1
          /\ setupBy' = c
     ELSE /\ pc' = [pc EXCEPT ![c] = "unlock"]
          /\ UNCHANGED <<setupStarted, setupBy>>
  /\ UNCHANGED <<globals, onceDone, defaultLogger, cfg, ret, calls, writerRemote,
                 sinkVars, nrec, installs, udpOpened, udpClosed, firstOk, udpAddr,
                 connects,
                 writerVars, cause, probe>>

\* connect (logger.go:109-125) and what Initialize does with its result
\* (logger.go:54-63): on an error connect logs at Error level, Initialize
\* logs a warning and the writer stays os.Stdout; otherwise the writer is
\* MultiWriter(os.Stdout, &synchronizedUDPWriter{conn}).
\* A connect that reports its failures at Warn level.
ConnectLevelWarn == LevelWarn

\* The level of connect's own failure records (logger.go:113, 119): slog.Error
ConnectLevel == LevelError

\* A connect that hands back DialUDP's nil connection without the error.
ConnectDropsDialError(outcome) ==
  [conn |-> outcome = "ok", err |-> IF outcome = "resolve" THEN outcome ELSE Nil]

\* connect's return values (logger.go:112-123): conn is whether the
\* *net.UDPConn is non-nil, err the error or Nil.
ConnectResult(outcome) ==
  [conn |-> outcome = "ok", err |-> IF outcome = "ok" THEN Nil ELSE outcome]

\* The system calls one connect call makes (logger.go:111, 117):
\* ResolveUDPAddr, and DialUDP only when that succeeded.
ConnectSteps(outcome) ==
  IF outcome = "resolve" THEN <<"resolve">> ELSE <<"resolve", "dial">>

Connect(c) ==
  /\ pc[c] = "L56"
  /\ \E outcome \in ConnectOutcomes, consoleOk, remoteOk \in BOOLEAN :
       LET res == ConnectResult(outcome)
           S1 == IF outcome = "ok" THEN Streams
                 ELSE Emit(Streams, defaultLogger, ConnectLevel,
                           IF outcome = "resolve"
                           THEN "Failed to resolve udp address"
                           ELSE "Failed to dial udp",
                           <<>>, consoleOk, remoteOk)
           S2 == IF res.err = Nil THEN S1
                 ELSE Emit(S1, defaultLogger, LevelWarn,
                           "Failed to connect to UDP endpoint, logging to stdout only",
                           <<StringAttr("error", res.err)>>, consoleOk, remoteOk)
       IN /\ SetStreams(S2)
          /\ connects' = Append(connects,
                                [host |-> logHost, port |-> logPort,
                                 steps |-> ConnectSteps(outcome),
                                 conn |-> res.conn, err |-> res.err])
          /\ udpOpened' = IF res.conn THEN udpOpened + 1 ELSE udpOpened
          /\ udpAddr' = IF res.conn
                        THEN Append(udpAddr, [host |-> logHost, port |-> logPort])
                        ELSE udpAddr
          /\ writerRemote' = [writerRemote EXCEPT ![c] = res.err = Nil]
  /\ pc' = [pc EXCEPT ![c] = "L65"]
  /\ UNCHANGED <<globals, onceVars, defaultLogger, cfg, ret, calls, nrec, setupStarted,
                 installs, udpClosed, firstOk, setupBy, writerVars, cause, probe>>

\* logger.go:65-75: build the handler over the writer, attach defaultAttrs()
\* as read from the package variables now, and slog.SetDefault.
BuiltLogger(c) ==
  JSONLogger(writerRemote[c], addSource,
             defaultAttrs(messageVersion, applicationName, logChannel, hostname,
                          logType))

\* A setup that closes the connection it opened when it ends.
SetupAlwaysCloses == TRUE

\* Whether the once.Do body closes the UDP connection (logger.go:54-76): it
\* holds no Close call, deferred or direct.
SetupCloses == FALSE

Install(c) ==
  /\ pc[c] = "L65"
  /\ defaultLogger' = BuiltLogger(c)
  /\ installs' = installs + 1
  /\ udpClosed' = IF SetupCloses /\ writerRemote[c] THEN udpClosed + 1 ELSE udpClosed
  /\ pc' = [pc EXCEPT ![c] = "store"]
  /\ UNCHANGED <<globals, onceVars, cfg, ret, calls, writerRemote, sinkVars, nrec,
                 setupStarted, udpOpened, firstOk, setupBy, udpAddr, connects,
                 writerVars, cause, probe>>

\* A gate that never records that f has run.
DoneNeverStored == FALSE

\* doSlow's deferred done.Store(1)
DoneAfterBody == TRUE

OnceStore(c) ==
  /\ pc[c] = "store"
  /\ onceDone' = DoneAfterBody
  /\ pc' = [pc EXCEPT ![c] = "unlock"]
  /\ UNCHANGED <<globals, onceM, defaultLogger, cfg, ret, calls, writerRemote,
                 sinkVars, nrec, histVars, writerVars, cause, probe>>

\* doSlow's deferred m.Unlock(), then logger.go:78
OnceUnlock(c) ==
  /\ pc[c] = "unlock"
  /\ onceM' = NoOne
  /\ ReturnNil(c)
  /\ UNCHANGED <<globals, onceDone, defaultLogger, cfg, calls, writerRemote,
                 sinkVars, nrec, setupStarted, installs, udpOpened, udpClosed,
                 setupBy, udpAddr, connects, writerVars, cause, probe>>

\* The application logs record r through slog's default logger, between its
\* Initialize calls.
LogRecord(r) ==
  /\ \A c \in Callers : Idle(c)
  /\ nrec < MaxRecords
  /\ nrec' = nrec + 1
  /\ \E consoleOk, remoteOk \in BOOLEAN :
       SetStreams(Emit(Streams, defaultLogger, r.level, "hello", r.attrs,
                       consoleOk, remoteOk))
  /\ UNCHANGED <<globals, onceVars, defaultLogger, callVars, histVars, writerVars,
                 probe>>

LogCall == \E r \in AppRecords : LogRecord(r)

\* ------------------------------------------------------------------ Init
InitWriterIdle ==
  /\ mu = NoOne
  /\ wpc = <<>>
  /\ wret = <<>>
  /\ inConn = {}
  /\ connClosed = FALSE
  /\ connCalls = <<>>
  /\ connRes = <<>>
  /\ nfwd = <<>>
  /\ delivered = <<>>

\* The package variables hold Go's zero values.
ZeroGlobals ==
  /\ addSource = FALSE
  /\ applicationName = ""
  /\ hostname = ""
  /\ logChannel = ""
  /\ logHost = ""
  /\ logPort = 0
  /\ logType = ""
  /\ messageVersion = 0

\* No package function has been called directly.
NoProbe ==
  [op |-> "none", n |-> 0, cfg |-> NewConfig, pre |-> NewConfig, err |-> Nil,
   groups |-> <<>>, attr |-> StringAttr("", ""), out |-> StringAttr("", "")]

\* No Initialize call was made, nothing was installed or written.
InitRun ==
  /\ onceDone = FALSE
  /\ onceM = NoOne
  /\ pc = [c \in Callers |-> "idle"]
  /\ cfg = [c \in Callers |-> NewConfig]
  /\ ret = [c \in Callers |-> "none"]
  /\ cause = [c \in Callers |-> Nil]
  /\ writerRemote = [c \in Callers |-> FALSE]
  /\ calls = 0
  /\ stdoutW = <<>>
  /\ udpW = <<>>
  /\ stderrW = <<>>
  /\ nrec = 0
  /\ setupStarted = 0
  /\ installs = 0
  /\ udpOpened = 0
  /\ udpClosed = 0
  /\ firstOk = <<>>
  /\ setupBy = NoOne
  /\ udpAddr = <<>>
  /\ connects = <<>>
  /\ probe = NoProbe

\* Process start: the package variables hold Go's zero values, the Once is
\* unused, slog's default logger is the built-in one, nothing was written.
InitProcess ==
  /\ ZeroGlobals
  /\ defaultLogger = StdLogger
  /\ InitRun

\* No synchronizedUDPWriter is exercised directly.
Init == InitProcess /\ InitWriterIdle

Step(c) ==
  \/ SetHostname(c)
  \/ SetMessageVersion(c)
  \/ ConfigAssign(c)
  \/ ValidateHost(c)
  \/ ValidateType(c)
  \/ OnceDo(c)
  \/ OnceLock(c)
  \/ Connect(c)
  \/ Install(c)
  \/ OnceStore(c)
  \/ OnceUnlock(c)

\* Two goroutines call Initialize concurrently, once each.
Next ==
  \E c \in Callers : CallOnce(c) \/ Step(c)

Spec == Init /\ [][Next]_vars

\* One goroutine makes Initialize calls and log calls, one after another.
SeqNext ==
  \/ CallAlone(MainGoroutine) \/ Step(MainGoroutine)
  \/ LogCall

SeqSpec == Init /\ [][SeqNext]_vars

\* One goroutine makes Initialize calls one after another and the
\* application logs nothing in between.
CallSeqNext ==
  CallAlone(MainGoroutine) \/ Step(MainGoroutine)

CallSeqSpec == Init /\ [][CallSeqNext]_vars

\* ------------------------------------------------ synchronizedUDPWriter
\* The writer used directly, as the package's tests do: NumWriters
\* goroutines each issue one Write of their own payload and one goroutine
\* issues Close, all on one &synchronizedUDPWriter{conn: c}.
Writers == 1..NumWriters
Closer == NumWriters + 1
Clients == Writers \cup {Closer}

\* "message-<id>" as its bytes
Payload(w) == <<"message-", w>>

\* What an unsynchronised io.WriteCloser may put on the wire for a Write that
\* overlapped another call on it.
Garbled == <<"garbled">>

Result(n, err) == [n |-> n, err |-> err]
NoResult == Result(-1, "none")

\* A writer whose Lock never waits.
MutexIgnoresHolder(holder) == TRUE

\* sync.Mutex.Lock proceeds only when the mutex is free (logger.go:31, 37).
MutexFree(holder) == holder = NoOne

\* A writer that hands the transport a truncated slice.
ForwardsFirstByte(p) == SubSeq(p, 1, 1)

\* The argument Write hands to w.conn.Write (logger.go:33)
Forwarded(p) == p

\* A writer that swallows the transport's error.
DropsError(res) == [res EXCEPT !.err = Nil]

\* What Write and Close return for the result of w.conn (logger.go:33, 39)
Returned(res) == res

InitWriter ==
  /\ mu = NoOne
  /\ wpc = [w \in Clients |-> "idle"]
  /\ wret = [w \in Clients |-> NoResult]
  /\ inConn = {}
  /\ connClosed = FALSE
  /\ connCalls = <<>>
  /\ connRes = [w \in Clients |-> NoResult]
  /\ nfwd = [w \in Clients |-> 0]
  /\ delivered = <<>>

\* A goroutine calls w.Write(Payload(w)) or w.Close().
WCall(w) ==
  /\ wpc[w] = "idle"
  /\ wpc' = [wpc EXCEPT ![w] = "lock"]
  /\ UNCHANGED <<mu, wret, inConn, connClosed, connCalls, connRes, nfwd, delivered>>
  /\ UNCHANGED processVars

\* logger.go:31, 37   w.mu.Lock()
WLock(w) ==
  /\ wpc[w] = "lock"
  /\ MutexFree(mu)
  /\ mu' = w
  /\ wpc' = [wpc EXCEPT ![w] = "forward"]
  /\ UNCHANGED <<wret, inConn, connClosed, connCalls, connRes, nfwd, delivered>>
  /\ UNCHANGED processVars

\* logger.go:33, 39   the call enters w.conn.Write(p) / w.conn.Close()
WForward(w) ==
  /\ wpc[w] = "forward"
  /\ inConn' = inConn \cup {w}
  /\ connCalls' = Append(connCalls,
                         IF w = Closer
                         THEN [op |-> "Close", p |-> <<>>]
                         ELSE [op |-> "Write", p |-> Forwarded(Payload(w))])
  /\ nfwd' = [nfwd EXCEPT ![w] = @ + 1]
  /\ wpc' = [wpc EXCEPT ![w] = "inconn"]
  /\ UNCHANGED <<mu, wret, connClosed, connRes, delivered>>
  /\ UNCHANGED processVars

\* w.conn.Write returns.  A closed connection refuses the write; an open one
\* sends the datagram or fails.  A call that ran alone sends its argument
\* whole; one that overlapped another call on the connection may send
\* anything.
ConnWriteReturn(w) ==
  /\ wpc[w] = "inconn"
  /\ w \in Writers
  /\ LET p == Forwarded(Payload(w))
     IN IF connClosed
        THEN /\ connRes' = [connRes EXCEPT ![w] = Result(0, "connection closed")]
             /\ UNCHANGED delivered
        ELSE \/ /\ connRes' = [connRes EXCEPT ![w] = Result(0, "write failed")]
                /\ UNCHANGED delivered
             \/ /\ connRes' = [connRes EXCEPT ![w] = Result(Len(p), Nil)]
                /\ \E d \in (IF inConn = {w} THEN {p} ELSE {p, Garbled}) :
                     delivered' = Append(delivered, d)
  /\ inConn' = inConn \ {w}
  /\ wpc' = [wpc EXCEPT ![w] = "unlock"]
  /\ UNCHANGED <<mu, wret, connClosed, connCalls, nfwd>>
  /\ UNCHANGED processVars

\* w.conn.Close returns: the connection is closed, with or without an error.
ConnCloseReturn(w) ==
  /\ wpc[w] = "inconn"
  /\ w = Closer
  /\ connClosed' = TRUE
  /\ \E err \in {Nil, "close failed"} :
       connRes' = [connRes EXCEPT ![w] = Result(0, err)]
  /\ inConn' = inConn \ {w}
  /\ wpc' = [wpc EXCEPT ![w] = "unlock"]
  /\ UNCHANGED <<mu, wret, connCalls, nfwd, delivered>>
  /\ UNCHANGED processVars

\* A writer that unlocks only after the transport call succeeded.
ReleasesOnSuccess(res) == res.err = Nil

\* Whether the mutex is released when the call returns with transport result
\* res: the Unlock is deferred (logger.go:32, 38), so it runs on every path.
Releases(res) == TRUE

\* logger.go:32, 38   the deferred w.mu.Unlock(), and the return
WUnlock(w) ==
  /\ wpc[w] = "unlock"
  /\ mu' = IF Releases(connRes[w]) THEN NoOne ELSE mu
  /\ wret' = [wret EXCEPT ![w] = Returned(connRes[w])]
  /\ wpc' = [wpc EXCEPT ![w] = "done"]
  /\ UNCHANGED <<inConn, connClosed, connCalls, connRes, nfwd, delivered>>
  /\ UNCHANGED processVars

\* The state the tests construct: a fresh writer over an open connection.
WriterInit == InitProcess /\ InitWriter

WriterNext ==
  \E w \in Clients :
    \/ WCall(w)
    \/ WLock(w)
    \/ WForward(w)
    \/ ConnWriteReturn(w)
    \/ ConnCloseReturn(w)
    \/ WUnlock(w)

WriterSpec == WriterInit /\ [][WriterNext]_vars

\* What a call does once it has been made, up to its return.
WProgress(w) ==
  \/ WLock(w)
  \/ WForward(w)
  \/ ConnWriteReturn(w)
  \/ ConnCloseReturn(w)
  \/ WUnlock(w)

\* The same writer under a fair scheduler and a transport whose calls
\* return: a goroutine that can go on does.  Whether a goroutine makes its
\* call at all is left open.
WriterFairSpec == WriterSpec /\ \A w \in Clients : WF_vars(WProgress(w))

\* ------------------------------------------- package functions, directly
\* The package's functions called one at a time on package variables that
\* hold any earlier configuration, as the package's own tests do
\* (part_001:141-408, logger_test.go:93-149): validate(), config(k),
\* NewConfig() and replaceAttr(groups, a).
TestBools == BOOLEAN
TestNames == {"", "app"}
TestChannels == {"", "LagoonLogs"}
TestHosts == {"", "127.0.0.1"}
TestPorts == {0, 5140}
TestTypes == {"", "demo"}
TestVersions == {0, 1}

\* The fields validate does not look at, in four combinations: Go's zero
\* values, NewConfig's defaults, every field set, and a mixture.
TestOthers ==
  { <<FALSE, "", "", 0>>, <<TRUE, "", "LagoonLogs", 5140>>,
    <<TRUE, "app", "LagoonLogs", 5140>>, <<FALSE, "app", "", 5140>> }

\* Every LogHost, LogType and MessageVersion with each of them.
TestConfigs ==
  { k \in [AddSource : TestBools, ApplicationName : TestNames,
           LogChannel : TestChannels, LogHost : TestHosts, LogPort : TestPorts,
           LogType : TestTypes, MessageVersion : TestVersions] :
      <<k.AddSource, k.ApplicationName, k.LogChannel, k.LogPort>> \in TestOthers }

\* Group paths the handler can be in when it calls the hook.
TestGroups == {<<>>, <<"context">>, <<"context", "extra">>}

TestKeys == {"msg", "time", "timestampOverride", "message", "level", "custom"}

TestAttrs ==
  {StringAttr(k, "v") : k \in TestKeys} \cup {IntAttr(k, 7) : k \in TestKeys}

\* The package variables hold what some earlier config(k) left in them.
UnitInit ==
  /\ \E k \in TestConfigs :
       /\ addSource = k.AddSource
       /\ applicationName = k.ApplicationName
       /\ logChannel = k.LogChannel
       /\ logHost = k.LogHost
       /\ logPort = k.LogPort
       /\ logType = k.LogType
       /\ messageVersion = k.MessageVersion
  /\ hostname = ""
  /\ defaultLogger = StdLogger
  /\ InitRun
  /\ InitWriterIdle

\* The package variables a Config has a field for, as a Config.
Resolved ==
  [AddSource |-> addSource, ApplicationName |-> applicationName,
   LogChannel |-> logChannel, LogHost |-> logHost, LogPort |-> logPort,
   LogType |-> logType, MessageVersion |-> messageVersion]

Called(op) == [NoProbe EXCEPT !.op = op, !.n = probe.n + 1]

\* validate() (part_003:42-56)
DirectValidate ==
  /\ probe.n < MaxProbes
  /\ WarnIfNoHost(logHost)
  /\ probe' = [Called("validate") EXCEPT !.err = validate(logType)]
  /\ UNCHANGED <<globals, onceVars, defaultLogger, callVars, nrec, histVars,
                 writerVars>>

\* config(k) (part_003:31-40): the assignments, then validate's result.
DirectConfig(k) ==
  /\ probe.n < MaxProbes
  /\ addSource' = Assigned(k, "AddSource")
  /\ applicationName' = Assigned(k, "ApplicationName")
  /\ logChannel' = Assigned(k, "LogChannel")
  /\ logHost' = Assigned(k, "LogHost")
  /\ logPort' = Assigned(k, "LogPort")
  /\ logType' = Assigned(k, "LogType")
  /\ messageVersion' = Assigned(k, "MessageVersion")
  /\ WarnIfNoHost(Assigned(k, "LogHost"))
  /\ probe' = [Called("config") EXCEPT
                 !.cfg = k, !.pre = Resolved,
                 !.err = validate(Assigned(k, "LogType"))]
  /\ UNCHANGED <<hostname, onceVars, defaultLogger, callVars, nrec, histVars,
                 writerVars>>

\* NewConfig() (part_003:19-29)
DirectNewConfig ==
  /\ probe.n < MaxProbes
  /\ probe' = [Called("NewConfig") EXCEPT !.cfg = NewConfig]
  /\ UNCHANGED <<globals, onceVars, defaultLogger, callVars, sinkVars, nrec, histVars,
                 writerVars>>

\* replaceAttr(groups, a) (logger.go:95-107)
DirectReplaceAttr(groups, a) ==
  /\ probe.n < MaxProbes
  /\ probe' = [Called("replaceAttr") EXCEPT
                 !.groups = groups, !.attr = a, !.out = replaceAttr(groups, a)]
  /\ UNCHANGED <<globals, onceVars, defaultLogger, callVars, sinkVars, nrec, histVars,
                 writerVars>>

UnitNext ==
  \/ DirectValidate
  \/ \E k \in TestConfigs : DirectConfig(k)
  \/ DirectNewConfig
  \/ \E groups \in TestGroups, a \in TestAttrs : DirectReplaceAttr(groups, a)

UnitSpec == UnitInit /\ [][UnitNext]_vars

\* ============================================================ properties
\* The string value of the logger attribute with the given key.
AttrStr(L, key) ==
  LET i == CHOOSE j \in 1..Len(L.attrs) : L.attrs[j].key = key IN L.attrs[i].str

AttrNum(L, key) ==
  LET i == CHOOSE j \in 1..Len(L.attrs) : L.attrs[j].key = key IN L.attrs[i].num

Installed == defaultLogger.kind = "json"

\* The goroutines inside the once.Do body (logger.go:54-75).
InSetup == {c \in Callers : pc[c] \in {"L56", "L65", "store"}}

\* The logger Initialize builds when every package variable holds the value
\* configuration k gave it.
LoggerOf(k, remote) ==
  JSONLogger(remote, k.AddSource,
             defaultAttrs(k.MessageVersion, k.ApplicationName, k.LogChannel,
                          OsHostname, k.LogType))

Bytes(writes) == [i \in 1..Len(writes) |-> writes[i].bytes]

\* C1: however the Initialize calls interleave, the once.Do body is begun at
\* most once and at most one logger is installed, never by two goroutines at
\* a time; and as soon as any call has returned nil it has run exactly once.
C1_SetupAtMostOnce ==
  /\ setupStarted <= 1
  /\ installs <= 1
  /\ Cardinality(InSetup) <= 1
  /\ (\E c \in Callers : ret[c] = Nil) => (setupStarted = 1 /\ installs = 1)

\* Two goroutines both passed validation and returned nil; setup ran once.
C1_Witness ==
  /\ \A c \in Callers : pc[c] = "done" /\ ret[c] = Nil
  /\ installs = 1

\* C2: whenever the logger is installed, its "type" attribute is non-empty.
C2_InstalledTypeNonEmpty ==
  Installed => AttrStr(defaultLogger, "type") # ""

\* C3: a call whose configuration has an empty LogType never reaches the
\* once.Do gate, never runs setup, and returns the configuration error.
C3_EmptyTypeCallAborts ==
  \A c \in Callers :
    (pc[c] # "idle" /\ cfg[c].LogType = "") =>
      /\ pc[c] \notin {"L53", "doSlow", "L56", "L65", "store", "unlock"}
      /\ pc[c] = "done" => ret[c] = ConfigError

\* C4: a finished call returned an error exactly when its configuration's
\* LogType is empty; and a logger installed after a failed connect has no
\* remote sink.
C4_ErrorIffEmptyType ==
  /\ \A c \in Callers :
       pc[c] = "done" => ((ret[c] # Nil) <=> (cfg[c].LogType = ""))
  /\ (Installed /\ udpOpened = 0) => ~defaultLogger.remote

\* C5: with the calls made one after another, once a call has returned nil
\* the default logger is the one in place at that return, it carries the
\* AddSource option and the default fields of that call's configuration, and
\* every finished call with a non-empty LogType returned nil.
C5_FirstConfigWins ==
  /\ firstOk # <<>> =>
       /\ defaultLogger = firstOk[1].logger
       /\ defaultLogger = LoggerOf(firstOk[1].cfg, defaultLogger.remote)
  /\ \A c \in Callers :
       (pc[c] = "done" /\ cfg[c].LogType # "") => ret[c] = Nil

\* A second valid call with another configuration has returned nil after the
\* first one installed the logger.
C5_Witness ==
  /\ firstOk # <<>>
  /\ calls >= 2
  /\ \E c \in Callers :
       /\ pc[c] = "done"
       /\ ret[c] = Nil
       /\ cfg[c] # firstOk[1].cfg
       /\ cfg[c].LogType # ""

\* C6: whenever a call has returned nil, the once.Do body has completed
\* (done is set, the logger is installed) and no goroutine is inside it.
C6_SuccessImpliesInstalled ==
  (\E c \in Callers : ret[c] = Nil) =>
    /\ onceDone
    /\ Installed
    /\ installs >= 1
    /\ InSetup = {}

\* A goroutine that did not run setup waits at the mutex while another is
\* between SetDefault and done.Store.
C6_Witness ==
  \E c, d \in Callers :
    /\ c # d
    /\ pc[c] = "doSlow"
    /\ pc[d] = "store"
    /\ onceM = d

\* C7: at most one call is executing inside w.conn at any time.
C7_OneCallInTransport == Cardinality(inConn) <= 1

\* One goroutine is inside w.conn while the other writer and the closer have
\* called and wait for the mutex.
C7_Witness ==
  \E w \in Writers :
    /\ inConn = {w}
    /\ \A v \in Clients \ {w} : wpc[v] = "lock"

\* C8: the datagrams sent are whole payloads of distinct writers, one for
\* each Write that the transport accepted; and once every writer has
\* returned, the Write calls the transport received are exactly one per
\* writer, each with that writer's whole payload.
C8_PayloadsIntact ==
  /\ \A i \in 1..Len(delivered) : \E w \in Writers : delivered[i] = Payload(w)
  /\ \A i, j \in 1..Len(delivered) : delivered[i] = delivered[j] => i = j
  /\ \A w \in Writers :
       (connRes[w].err = Nil) <=> (\E i \in 1..Len(delivered) : delivered[i] = Payload(w))
  /\ (\A w \in Writers : wpc[w] = "done") =>
       \A w \in Writers :
         Cardinality({i \in 1..Len(connCalls) :
                        connCalls[i] = [op |-> "Write", p |-> Payload(w)]}) = 1
  /\ Cardinality({i \in 1..Len(connCalls) : connCalls[i].op = "Write"}) <= NumWriters

\* Every writer has returned without error and the transport sent
\* NumWriters datagrams.
C8_Witness ==
  /\ \A w \in Writers : wpc[w] = "done" /\ wret[w].err = Nil
  /\ Len(delivered) = NumWriters

\* C9: a Write or Close that has returned forwarded exactly one call to
\* w.conn and returned that call's result (byte count and error); no
\* goroutine ever forwards more than one.
C9_ResultUnchanged ==
  \A w \in Clients :
    /\ nfwd[w] <= 1
    /\ wpc[w] = "done" => (nfwd[w] = 1 /\ wret[w] = connRes[w])

\* A Write refused by the closed connection, a Write that failed and a Close
\* that failed have all been returned to their callers.
C9_Witness ==
  /\ wpc[Closer] = "done"
  /\ wret[Closer].err = "close failed"
  /\ \E w, v \in Writers :
       /\ wpc[w] = "done" /\ wret[w].err = "connection closed"
       /\ wpc[v] = "done" /\ wret[v] = Result(0, "write failed")

\* C10 as stated: with the UDP connection open every record written by the
\* installed logger reaches both sinks with the same bytes; without it the
\* UDP sink receives nothing.
C10_BothSinksAlways ==
  Installed =>
    /\ defaultLogger.remote <=> (udpOpened >= 1)
    /\ Bytes(udpW) = IF defaultLogger.remote THEN Bytes(stdoutW) ELSE <<>>

\* C10 amended: every record is written to the console; with the UDP
\* connection open it is also written to the UDP sink, same bytes, one write,
\* same order, unless its console write failed; without the connection the
\* UDP sink receives nothing.
C10_RemoteFollowsConsole ==
  LET WroteOk(x) == x.ok IN
  /\ Installed =>
       /\ defaultLogger.remote <=> (udpOpened >= 1)
       /\ Bytes(udpW) = IF defaultLogger.remote
                        THEN Bytes(SelectSeq(stdoutW, WroteOk))
                        ELSE <<>>
  /\ ~Installed => (stdoutW = <<>> /\ udpW = <<>>)

\* Two records went to both sinks and the UDP write of one failed.
C10_Witness ==
  /\ Installed
  /\ defaultLogger.remote
  /\ Len(udpW) = 2
  /\ Len(stdoutW) = 2
  /\ \E i \in 1..2 : ~udpW[i].ok

\* A call has returned and has not been followed by another.
HasReturned(c) == pc[c] = "done"

\* C11: after any Initialize call that returned nil, the resolved message
\* version is the fixed internal value 3 and so is the @version attribute of
\* the installed logger, whatever MessageVersion the configuration carried.
C11_VersionIsInternal ==
  \A c \in Callers :
    (HasReturned(c) /\ ret[c] = Nil) =>
      /\ messageVersion = InternalMessageVersion
      /\ AttrNum(defaultLogger, "@version") = InternalMessageVersion

C12_ValidateIffType ==
  probe.op = "validate" =>
    /\ (probe.err # Nil) <=> (logType = "")
    /\ logType = "" => probe.err = "logType is required"
    /\ logType # "" => probe.err = Nil

\* validate() has failed with every other package variable set, and
\* messageVersion and logHost non-zero.
C12_Witness ==
  /\ probe.op = "validate"
  /\ probe.err = "logType is required"
  /\ logHost # ""
  /\ applicationName # ""
  /\ messageVersion # 0

\* The writes among the given ones that carry validate's warning.
HostWarningsIn(writes) ==
  Cardinality({ i \in 1..Len(writes) :
                  \E j \in 1..Len(writes[i].bytes) :
                    /\ writes[i].bytes[j].key \in {"msg", "message"}
                    /\ writes[i].bytes[j].str =
                         "log.host is not supplied and will default to localhost" })

\* The warnings validate has written to the logging output so far.
HostWarnings == HostWarningsIn(stderrW) + HostWarningsIn(stdoutW)

\* C13: a validate() call writes one warning when logHost is empty and
\* writes nothing when it is not, and its result is determined by logType
\* alone, the same with an empty and with a non-empty logHost.
C13_HostTypeIndependent ==
  [][ (probe'.n # probe.n /\ probe'.op = "validate") =>
        /\ logHost = "" => HostWarnings' = HostWarnings + 1
        /\ logHost # "" => UNCHANGED sinkVars
        /\ probe'.err = (IF logType = "" THEN "logType is required" ELSE Nil) ]_vars

\* validate() has warned about the empty logHost and returned nil for the
\* non-empty logType, as in TestValidate_EmptyLogHost.
C13_Witness ==
  /\ probe.op = "validate"
  /\ logHost = ""
  /\ logType # ""
  /\ probe.err = Nil
  /\ HostWarnings >= 1

\* The configuration with every field at Go's zero value, and one with
\* every field set.
ZeroConfig ==
  [AddSource |-> FALSE, ApplicationName |-> "", LogChannel |-> "", LogHost |-> "",
   LogPort |-> 0, LogType |-> "", MessageVersion |-> 0]

FullConfig ==
  [AddSource |-> TRUE, ApplicationName |-> "app", LogChannel |-> "LagoonLogs",
   LogHost |-> "127.0.0.1", LogPort |-> 5140, LogType |-> "demo",
   MessageVersion |-> 1]

C15_ErrorWrappedOnce ==
  \A c \in Callers :
    HasReturned(c) =>
      /\ cause[c] = validate(logType)
      /\ cause[c] # Nil =>
           /\ cause[c] = "logType is required"
           /\ ret[c] = "configuration error: logType is required"
      /\ cause[c] = Nil => ret[c] = Nil

\* Initialize(NewConfig()) has returned the wrapped error, after an earlier
\* call installed the logger.
C15_Witness ==
  \E c \in Callers :
    /\ HasReturned(c)
    /\ cfg[c] = NewConfig
    /\ ret[c] = ConfigError
    /\ cause[c] = "logType is required"
    /\ Installed

\* A direct call of the named function has just returned.
JustCalled(op) == probe'.n # probe.n /\ probe'.op = op

\* What a direct call of a function without side effects leaves alone: the
\* package variables, the Once, slog's default logger and the output.
ProcessUntouched == UNCHANGED <<globals, onceVars, defaultLogger, sinkVars>>

\* C16: every NewConfig() call returns AddSource true, ApplicationName "",
\* LogChannel "LagoonLogs", LogHost "", LogPort 5140, LogType "",
\* MessageVersion 1, whatever the package variables hold, and leaves the
\* package variables, the Once and the default logger as they were.
C16_NewConfigPure ==
  [][ JustCalled("NewConfig") =>
        /\ probe'.cfg =
             [AddSource |-> TRUE, ApplicationName |-> "", LogChannel |-> "LagoonLogs",
              LogHost |-> "", LogPort |-> 5140, LogType |-> "", MessageVersion |-> 1]
        /\ ProcessUntouched ]_vars

\* NewConfig() was the last of MaxProbes direct calls, made while the
\* package variables held a configuration far from the defaults.
C16_Witness ==
  /\ probe.op = "NewConfig"
  /\ probe.n = MaxProbes
  /\ probe.cfg = NewConfig
  /\ Resolved = [FullConfig EXCEPT !.AddSource = FALSE, !.LogChannel = "",
                                   !.MessageVersion = 0]

\* C17: replaceAttr(groups, a) returns a with its key renamed msg ->
\* message, time -> @timestamp, timestampOverride -> @timestamp when groups
\* is empty and with its key as it is otherwise; any other key and the
\* value are as they were; the call leaves the process state alone.
C17_HookPure ==
  [][ JustCalled("replaceAttr") =>
        LET g == probe'.groups
            a == probe'.attr
            out == probe'.out
        IN /\ out.key = IF g # <<>> THEN a.key
                        ELSE IF a.key = "msg" THEN "message"
                        ELSE IF a.key \in {"time", "timestampOverride"} THEN "@timestamp"
                        ELSE a.key
           /\ out.kind = a.kind
           /\ out.str = a.str
           /\ out.num = a.num
           /\ ProcessUntouched ]_vars

\* The hook was called inside a group with an attribute keyed "msg" and
\* returned it under the same key.
C17_Witness ==
  /\ probe.op = "replaceAttr"
  /\ probe.groups # <<>>
  /\ probe.attr.key = "msg"
  /\ probe.out = probe.attr

\* Written record b has a top-level member under the given key.
HasKey(b, key) == \E j \in 1..Len(b) : b[j].key = key

\* Written record b has the given attribute as a top-level member.
Has(b, a) == \E j \in 1..Len(b) : b[j] = a

RequiredKeys ==
  {"@timestamp", "level", "message", "@version", "application", "channel", "host",
   "type"}

\* The default fields of written record b are those of configuration k.
DefaultFieldsOf(b, k) ==
  \A j \in 1..Len(b) :
    /\ b[j].key = "@version" => b[j] = IntAttr("@version", k.MessageVersion)
    /\ b[j].key = "application" => b[j].str = k.ApplicationName
    /\ b[j].key = "channel" => b[j].str = k.LogChannel
    /\ b[j].key = "host" => b[j].str = OsHostname
    /\ b[j].key = "type" => b[j].str = k.LogType

C21_SettingsSetOnce ==
  firstOk # <<>> =>
    /\ Resolved = firstOk[1].cfg
    /\ hostname = OsHostname

\* C21 amended: with the calls made one after another, every Initialize
\* call that has returned, with nil or with the configuration error, has
\* left the package variables holding its own configuration and hostname
\* the machine's name; what stays as the first successful call left it is
\* the default logger.
C21_LastCallResolves ==
  \A c \in Callers :
    HasReturned(c) =>
      /\ Resolved = cfg[c]
      /\ hostname = OsHostname
      /\ firstOk # <<>> => defaultLogger = firstOk[1].logger

\* After a call installed the logger, a call with NewConfig() has failed
\* validation and left its empty LogType in the package variable.
C21_Witness ==
  /\ firstOk # <<>>
  /\ Installed
  /\ \E c \in Callers :
       /\ HasReturned(c)
       /\ ret[c] = ConfigError
       /\ cfg[c] # firstOk[1].cfg
       /\ logType = ""
       /\ AttrStr(defaultLogger, "type") # ""

\* The messages logged when the transport does not open (logger.go:58,
\* 113, 119).
ConnectFailureMessages ==
  {"Failed to resolve udp address", "Failed to dial udp",
   "Failed to connect to UDP endpoint, logging to stdout only"}

\* The level of a written record.
LevelOf(b) ==
  LET j == CHOOSE i \in 1..Len(b) : b[i].key = "level" IN b[j].num

\* The written record reports a failure to open the transport.
ReportsConnectFailure(b) ==
  \E j \in 1..Len(b) :
    /\ b[j].key \in {"msg", "message"}
    /\ b[j].str \in ConnectFailureMessages

\* C22 as stated: every record written about a failure to open the
\* transport, at the resolution step or at the dial step, is at Warn level;
\* none is at Error.
C22_FailureWarnsOnly ==
  \A writes \in {stderrW, stdoutW} :
    \A i \in 1..Len(writes) :
      ReportsConnectFailure(writes[i].bytes) => LevelOf(writes[i].bytes) = LevelWarn

\* How many of the given writes carry the given message at the given level.
Reports(writes, msg, level) ==
  Cardinality({ i \in 1..Len(writes) :
                  /\ LevelOf(writes[i].bytes) = level
                  /\ \E j \in 1..Len(writes[i].bytes) :
                       /\ writes[i].bytes[j].key \in {"msg", "message"}
                       /\ writes[i].bytes[j].str = msg })

\* The connect calls that failed at the given step.
FailedAt(step) ==
  Cardinality({ i \in 1..Len(connects) : connects[i].err = step })

\* C22 amended: a failure to open the transport is logged twice through the
\* logger that is the default at that moment: once at Error level by
\* connect, naming the step that failed, and once at Warn level by
\* Initialize; no such record is written otherwise, and the call goes on to
\* install a console-only logger.
C22_FailureErrorThenWarn ==
  LET all == stderrW \o stdoutW IN
  /\ Reports(all, "Failed to resolve udp address", LevelError) = FailedAt("resolve")
  /\ Reports(all, "Failed to dial udp", LevelError) = FailedAt("dial")
  /\ Reports(all, "Failed to connect to UDP endpoint, logging to stdout only",
             LevelWarn) = FailedAt("resolve") + FailedAt("dial")
  /\ \A i \in 1..Len(all) :
       ReportsConnectFailure(all[i].bytes) =>
         LevelOf(all[i].bytes) \in {LevelError, LevelWarn}
  /\ (Installed /\ FailedAt("resolve") + FailedAt("dial") > 0) => ~defaultLogger.remote

\* The dial step failed, both records were written, and the call installed
\* a console-only logger and returned nil.
C22_Witness ==
  /\ FailedAt("dial") = 1
  /\ Installed
  /\ ~defaultLogger.remote
  /\ Reports(stderrW, "Failed to dial udp", LevelError) = 1
  /\ \E c \in Callers : HasReturned(c) /\ ret[c] = Nil

\* ------------------------------------------------------------------ C23
\* How many members of the line b carry the given key.
Members(b, key) == Cardinality({ j \in 1..Len(b) : b[j].key = key })

\* C23: a record written by the installed logger has a single "@timestamp"
\* member, also when the caller supplied a top-level timestampOverride.
C23_SingleTimestamp ==
  \A i \in 1..Len(stdoutW) : Members(stdoutW[i].bytes, "@timestamp") = 1

\* ------------------------------------------------------------------ C24
\* The step is a log call that wrote one more line to the console.
ConsoleWrote == Len(stdoutW') = Len(stdoutW) + 1

\* C24: every log call made through the installed logger, whatever its
\* level, writes a line to the console.
C24_NoLevelFiltered ==
  [][\A r \in AppRecords : (Installed /\ LogRecord(r)) => ConsoleWrote]_vars

\* The time the handler stamped on the line b.
TimeOf(b) ==
  LET j == CHOOSE j \in 1..Len(b) : b[j].kind = "time" IN b[j].num

\* C24 amended: the installed handler drops what is below Debug and nothing
\* else.  A log call at Debug or above through the installed logger writes
\* one line at that level to the console, and to the remote sink exactly
\* when the logger has one and the console write succeeded; a log call
\* below Debug writes nothing anywhere.
C24_DebugAndAbovePass ==
  [][\A r \in AppRecords : (Installed /\ LogRecord(r)) =>
       IF r.level >= LevelDebug
       THEN /\ ConsoleWrote
            /\ LevelOf(stdoutW'[Len(stdoutW')].bytes) = r.level
            /\ stderrW' = stderrW
            /\ IF defaultLogger.remote /\ stdoutW'[Len(stdoutW')].ok
               THEN /\ Len(udpW') = Len(udpW) + 1
                    /\ udpW'[Len(udpW')].bytes = stdoutW'[Len(stdoutW')].bytes
               ELSE udpW' = udpW
       ELSE UNCHANGED sinkVars]_vars

\* After one Initialize call the application logged twice: the first call,
\* at Debug, is on the console, and the second wrote nothing.
C24_Witness ==
  /\ Installed
  /\ calls = 1
  /\ nrec = 2
  /\ stderrW = <<>>
  /\ Len(stdoutW) = 1
  /\ LevelOf(stdoutW[1].bytes) = LevelDebug
  /\ TimeOf(stdoutW[1].bytes) = 1

\* ------------------------------------------------------------------ C25
\* The newest of the given writes is the empty-host warning.
EndsWithHostWarning(writes) ==
  /\ Len(writes) > 0
  /\ HostWarningsIn(<<writes[Len(writes)]>>) = 1
  /\ LevelOf(writes[Len(writes)].bytes) = LevelWarn

\* C25: the empty-host warning of validate goes through the logger that is
\* the process default when validate runs.  Before installation that is the
\* built-in logger: one line on stderr, nothing on the console or the remote
\* sink.  Once a logger is installed it is that logger: one line on the
\* console, and the same line on the remote sink when the logger has one and
\* the console write succeeded; nothing on stderr.
C25_WarningThroughDefault ==
  [][\A c \in Callers : (ValidateHost(c) /\ logHost = "") =>
       IF Installed
       THEN /\ Len(stdoutW') = Len(stdoutW) + 1
            /\ EndsWithHostWarning(stdoutW')
            /\ stderrW' = stderrW
            /\ IF defaultLogger.remote /\ stdoutW'[Len(stdoutW')].ok
               THEN /\ Len(udpW') = Len(udpW) + 1
                    /\ udpW'[Len(udpW')].bytes = stdoutW'[Len(stdoutW')].bytes
               ELSE udpW' = udpW
       ELSE /\ Len(stderrW') = Len(stderrW) + 1
            /\ EndsWithHostWarning(stderrW')
            /\ stdoutW' = stdoutW
            /\ udpW' = udpW]_vars

\* One call warned before anything was installed, on stderr, and a later
\* call warned through the installed dual-sink logger, on console and remote
\* sink.
C25_Witness ==
  /\ HostWarningsIn(stderrW) = 1
  /\ HostWarningsIn(stdoutW) = 1
  /\ HostWarningsIn(udpW) = 1
  /\ defaultLogger.remote

\* ------------------------------------------------------------------ C26
\* C26: in a run of Initialize calls and log calls nothing closes the remote
\* writer or its transport: no Close has been issued, and a transport that
\* setup opened is open in every later state.
C26_TransportNeverClosed ==
  /\ udpClosed = 0
  /\ ~connClosed
  /\ \A i \in 1..Len(connCalls) : connCalls[i].op # "Close"
  /\ (Installed /\ defaultLogger.remote) => udpOpened - udpClosed = 1

\* Setup opened the transport, and every Initialize call and log call of
\* the run has been made since, a record having gone to the remote sink.
C26_Witness ==
  /\ udpOpened = 1
  /\ calls = MaxCalls
  /\ nrec = MaxRecords
  /\ HasReturned(MainGoroutine)
  /\ Len(udpW) >= 1

\* ------------------------------------------------------------------ C27
\* C27: every connect call returns a connection and no error, or no
\* connection and an error; it resolves the address once and then opens the
\* socket once, and a failed resolution is returned without the socket
\* being tried.
C27_ConnectOneOrOther ==
  \A i \in 1..Len(connects) :
    LET e == connects[i] IN
    /\ (e.conn /\ e.err = Nil) \/ (~e.conn /\ e.err # Nil)
    /\ e.steps \in {<<"resolve">>, <<"resolve", "dial">>}
    /\ e.err = "resolve" <=> e.steps = <<"resolve">>
    /\ e.err = "dial" => ~e.conn

\* A connect call failed to resolve the address, and the Initialize call
\* making it has returned.
C27_Witness ==
  /\ Len(connects) = 1
  /\ connects[1].err = "resolve"
  /\ ~connects[1].conn
  /\ \E c \in Callers : HasReturned(c) /\ ret[c] = Nil

\* ------------------------------------------------------------------ C28
\* The place of w's call among the calls the transport received.
Place(w) ==
  CHOOSE i \in 1..Len(connCalls) :
    connCalls[i] = (IF w = Closer THEN [op |-> "Close", p |-> <<>>]
                    ELSE [op |-> "Write", p |-> Payload(w)])

\* w's call reached the transport after Close did.
AfterClose(w) ==
  \E i \in 1..Len(connCalls) : connCalls[i].op = "Close" /\ i < Place(w)

\* w's payload is among the datagrams sent.
Sent(w) == \E i \in 1..Len(delivered) : delivered[i] = Payload(w)

\* C28: a Write and the Close on one writer never overlap.  A Write that has
\* returned was forwarded to the transport once, either before Close
\* reached it or after.  After: it returns the transport's closed-connection
\* error and nothing is sent.  Before: it is never refused as closed, and its
\* payload is sent exactly when it returns no error.  Every datagram sent is
\* the payload of a Write made before Close.
C28_WriteBeforeOrAfterClose ==
  /\ Closer \in inConn => inConn = {Closer}
  /\ \A w \in Writers : wpc[w] = "done" =>
       /\ nfwd[w] = 1
       /\ IF AfterClose(w)
          THEN wret[w] = Result(0, "connection closed") /\ ~Sent(w)
          ELSE /\ wret[w].err # "connection closed"
               /\ wret[w].err = Nil <=> Sent(w)
  /\ \A i \in 1..Len(delivered) :
       \E w \in Writers : delivered[i] = Payload(w) /\ nfwd[w] = 1 /\ ~AfterClose(w)

\* One Write was sent before Close, Close returned, and a later Write was
\* forwarded to the closed transport and refused.
C28_Witness ==
  /\ \A w \in Clients : wpc[w] = "done"
  /\ \E w, v \in Writers :
       /\ ~AfterClose(w) /\ wret[w].err = Nil /\ Sent(w)
       /\ AfterClose(v) /\ nfwd[v] = 1 /\ wret[v].err = "connection closed"
  /\ Len(delivered) = 1

\* ------------------------------------------------------------------ C29
\* The installed logger and the address setup connected to are the ones
\* configuration k alone gives.
AllFrom(k) ==
  /\ defaultLogger = LoggerOf(k, defaultLogger.remote)
  /\ \A i \in 1..Len(connects) :
       connects[i].host = k.LogHost /\ connects[i].port = k.LogPort

\* C29: when every Initialize call made has a valid configuration, the
\* installed logger's settings (transport address, AddSource and the default
\* fields) all come from the configuration of one of the calls.
C29_NoMixedSettings ==
  (/\ Installed
   /\ \A c \in Callers : pc[c] # "idle" => cfg[c].LogType # "") =>
    \E c \in Callers : pc[c] # "idle" /\ AllFrom(cfg[c])

\* ------------------------------------------------------------------ C30
\* C30: an Initialize call that fails validation leaves the one-time gate
\* as it found it.  With the calls made one after another, while no call has
\* entered setup the gate is unused and nothing is installed, however many
\* calls have failed; every call with a non-empty LogType that has returned
\* returned nil with setup run once; and the call that ran setup installed
\* the logger its own configuration gives.
C30_FailureKeepsGate ==
  /\ setupStarted = 0 => (~onceDone /\ ~Installed)
  /\ \A c \in Callers :
       /\ (HasReturned(c) /\ cfg[c].LogType # "") =>
            (ret[c] = Nil /\ Installed /\ onceDone /\ setupStarted = 1)
       /\ pc[c] = "store" => defaultLogger = LoggerOf(cfg[c], writerRemote[c])

\* A call with the default configuration failed, warning on stderr about
\* the host, and the next call, with a non-empty LogType, ran setup,
\* installed the logger of its own configuration and returned nil.
C30_Witness ==
  /\ calls = 2
  /\ HostWarningsIn(stderrW) = 1
  /\ cfg[MainGoroutine] = CfgOther
  /\ HasReturned(MainGoroutine)
  /\ ret[MainGoroutine] = Nil
  /\ setupStarted = 1
  /\ defaultLogger = LoggerOf(CfgOther, defaultLogger.remote)

\* ------------------------------------------------------------------ C31
\* C31: the installed logger's sinks are those the one setup execution
\* gave it.  connect is called at most once in the life of the process,
\* whatever Initialize calls follow; the installed logger has the remote
\* sink exactly when that one call opened the transport; and a transport is
\* open only if that call opened it.
C31_SinksFixedAtSetup ==
  /\ Len(connects) <= 1
  /\ Installed => (Len(connects) = 1 /\ defaultLogger.remote = connects[1].conn)
  /\ udpOpened = Cardinality({ i \in 1..Len(connects) : connects[i].conn })

\* Setup could not open the transport to the first configuration's address;
\* a later call with another address has returned nil, and the logger is
\* still console-only with no second connect made.
C31_Witness ==
  /\ calls = 2
  /\ Len(connects) = 1
  /\ connects[1].err # Nil
  /\ connects[1].host = CfgDemo.LogHost
  /\ cfg[MainGoroutine] = CfgOther
  /\ HasReturned(MainGoroutine)
  /\ ret[MainGoroutine] = Nil
  /\ Installed
  /\ ~defaultLogger.remote
  /\ udpOpened = 0

\* ------------------------------------------------------------------ C32
\* The goroutines inside Write or Close, from the call to the return.
InCall == { w \in Clients : wpc[w] \notin {"idle", "done"} }

\* The mutex is held only by a goroutine that is between its Lock and its
\* deferred Unlock.
HeldInsideCall ==
  /\ mu # NoOne => (mu \in InCall /\ wpc[mu] \in {"forward", "inconn", "unlock"})
  /\ InCall = {} => mu = NoOne

\* C32: the writer's mutex is released on every return path of Write and
\* Close, whatever the transport returned, so it is free whenever no call
\* is in progress; and under fair scheduling, with a transport whose calls
\* return, every Write and Close that was called returns.
C32_LockReleasedCallsReturn ==
  /\ []HeldInsideCall
  /\ \A w \in Clients : (w \in InCall) ~> (wpc[w] = "done")

\* Every call has returned, a Write and the Close with the transport's
\* error, and the mutex is free.
C32_Witness ==
  /\ \A w \in Clients : wpc[w] = "done"
  /\ mu = NoOne
  /\ wret[Closer].err # Nil
  /\ \E w \in Writers : wret[w].err # Nil

\* ------------------------------------------------------------------ C33
\* C33: a record emitted through a two-sink logger is handed to the console
\* first and to the remote sink second.  The console write is made whatever
\* the remote write returns, and nothing written earlier is taken back; the
\* remote write is made, with the same bytes, exactly when the console write
\* succeeded; and the logger, remote sink included, is the same afterwards,
\* so the next record is tried on both sinks again.
C33_ConsoleThenRemote ==
  [][\A r \in AppRecords :
       (/\ Installed
        /\ defaultLogger.remote
        /\ r.level >= LevelDebug
        /\ LogRecord(r)) =>
         /\ ConsoleWrote
         /\ SubSeq(stdoutW', 1, Len(stdoutW)) = stdoutW
         /\ SubSeq(udpW', 1, Len(udpW)) = udpW
         /\ IF stdoutW'[Len(stdoutW')].ok
            THEN /\ Len(udpW') = Len(udpW) + 1
                 /\ udpW'[Len(udpW')].bytes = stdoutW'[Len(stdoutW')].bytes
            ELSE udpW' = udpW
         /\ defaultLogger' = defaultLogger]_vars

\* The remote write of the first record failed and its console write stands;
\* the second record was tried on both sinks all the same; the console write
\* of the third failed and the remote sink never saw it.
C33_Witness ==
  /\ defaultLogger.remote
  /\ Len(stdoutW) = 3
  /\ Len(udpW) = 2
  /\ stdoutW[1].ok /\ ~udpW[1].ok
  /\ stdoutW[2].ok /\ udpW[2].bytes = stdoutW[2].bytes
  /\ ~stdoutW[3].ok

\* ------------------------------------------------------------------ C34
\* C34: an Initialize call writes the resolved state before it knows whether
\* the configuration is valid.  With the calls made one after another:
\* hostname and the message version are set before the first field is
\* copied; every field of the call's configuration has been copied when
\* validation begins; and a call that has returned the configuration error
\* has left its own configuration, empty LogType included, in the package
\* variables, while a logger installed earlier keeps the non-empty type of
\* the call that installed it.
C34_FailedCallStillWrites ==
  \A c \in Callers :
    /\ pc[c] = "C32" =>
         (hostname = OsHostname /\ messageVersion = InternalMessageVersion)
    /\ pc[c] \in {"V45", "V51"} => Resolved = cfg[c]
    /\ (HasReturned(c) /\ ret[c] = ConfigError) =>
         /\ cfg[c].LogType = ""
         /\ Resolved = cfg[c]
         /\ Installed =>
              /\ firstOk # <<>>
              /\ AttrStr(defaultLogger, "type") = firstOk[1].cfg.LogType
              /\ AttrStr(defaultLogger, "type") # logType

\* The logger was installed by a call with CfgOther; a second call, with
\* NewConfig(), has returned the configuration error, and the package
\* variables now hold NewConfig()'s values next to a logger of type "other".
C34_Witness ==
  /\ calls = 2
  /\ cfg[MainGoroutine] = NewConfig
  /\ HasReturned(MainGoroutine)
  /\ ret[MainGoroutine] = ConfigError
  /\ Resolved = NewConfig
  /\ firstOk # <<>>
  /\ firstOk[1].cfg = CfgOther
  /\ AttrStr(defaultLogger, "type") = "other"
  /\ addSource /\ ~defaultLogger.addSource

====
